---- MODULE Spec2Model ----
(***************************************************************************)
(* Model of QuarterlyDataCollector (src/data/loader.py, lines 124-265):    *)
(* the amount parser and keyword lookup of _extract_raw_amounts, the row   *)
(* builder _build_display_row and the orchestration and Q4 reconciliation  *)
(* of collect_quarterly_data.                                              *)
(*                                                                         *)
(* Text is a sequence of characters, each character a one-element string.  *)
(* A Hangul syllable is one character; it is written romanised with a      *)
(* trailing underscore ("mae_" for the first syllable of the revenue       *)
(* label) so that it cannot collide with a Latin letter.                   *)
(* Amounts are integers (won); the model does not cover float rounding,    *)
(* NaN or infinities.                                                      *)
(***************************************************************************)
EXTENDS Integers, Sequences, FiniteSets, TLC

VARIABLES
    pc,             \* position of the operation under way
    company_name,   \* argument of collect_quarterly_data
    i,              \* index of the report-code loop (lines 209-220)
    df,             \* the record fetched for the current / each quarter
    curr,           \* quarter -> current-period amount map   (line 208)
    cum,            \* quarter -> cumulative amount map        (line 208)
    q1, q2, q3, q4, \* per-quarter maps of step (3)            (lines 236-244)
    rows,           \* the table under construction            (line 256)
    raw,            \* argument of find_amount's parser / of _build_display_row
    column,         \* argument of _extract_raw_amounts
    ret,            \* value returned by the operation under way
    issued          \* the quarters in the order their fetches were made

vars == <<pc, company_name, i, df, curr, cum, q1, q2, q3, q4, rows, raw, column, ret, issued>>

-----------------------------------------------------------------------------
(* Bounds of the model *)

\* longest amount text enumerated for the parser
MaxLen == 4
\* amounts of the row builder's input maps range over -MaxAmount..MaxAmount
MaxAmount == 1
\* filings are numbered 1..MaxFiling; filing n carries amounts scaled by n
MaxFiling == 2
\* most rows of a record given to _extract_raw_amounts on its own
MaxRows == 3

-----------------------------------------------------------------------------
(* Text helpers: Python str operations used by find_amount *)

Digits == <<"0", "1", "2", "3", "4", "5", "6", "7", "8", "9">>

IsDigit(c) == \E d \in 1..Len(Digits) : Digits[d] = c

DigitValue(c) == (CHOOSE d \in 1..Len(Digits) : Digits[d] = c) - 1

Whitespace == {" "}

UPPER == <<"A", "B", "C", "D", "E", "F", "G", "H", "I", "J", "K", "L", "M",
           "N", "O", "P", "Q", "R", "S", "T", "U", "V", "W", "X", "Y", "Z">>

LOWER == <<"a", "b", "c", "d", "e", "f", "g", "h", "i", "j", "k", "l", "m",
           "n", "o", "p", "q", "r", "s", "t", "u", "v", "w", "x", "y", "z">>

\* case folding of one character (case=False in str.contains)
UpperSet == {UPPER[n] : n \in 1..Len(UPPER)}

LowerOf == [c \in UpperSet |-> LOWER[CHOOSE n \in 1..Len(UPPER) : UPPER[n] = c]]

LowerChar(c) == IF c \in UpperSet THEN LowerOf[c] ELSE c

\* s.replace(',', '')
RemoveCommas(s) == SelectSeq(s, LAMBDA c : c # ",")

\* s.strip(chars): drop leading and trailing characters that are in chars
StripChars(s, chars) ==
    LET keep == {n \in 1..Len(s) : s[n] \notin chars}
    IN  IF keep = {} THEN <<>>
        ELSE LET lo == CHOOSE n \in keep : \A m \in keep : n <= m
                 hi == CHOOSE n \in keep : \A m \in keep : n >= m
             IN  SubSeq(s, lo, hi)

\* value of a non-empty sequence of decimal digits
RECURSIVE DecimalValue(_)
DecimalValue(s) ==
    IF s = <<>> THEN 0
    ELSE 10 * DecimalValue(SubSeq(s, 1, Len(s) - 1)) + DigitValue(s[Len(s)])

\* outcome of a conversion: a number, or a raised ValueError
Value(n) == [ok |-> TRUE, val |-> n]
ValueError == [ok |-> FALSE, val |-> 0]

\* Python's None; also the value of a variable that an operation does not use
None == [none |-> TRUE]

\* float(s) on texts of digits, sign, blanks and other characters: surrounding
\* whitespace is ignored, one leading sign is allowed, the rest must be digits
PyFloat(s) ==
    LET t == StripChars(s, Whitespace)
        signed == t # <<>> /\ t[1] \in {"-", "+"}
        body == IF signed THEN Tail(t) ELSE t
    IN  IF body # <<>> /\ \A n \in 1..Len(body) : IsDigit(body[n])
        THEN Value(IF signed /\ t[1] = "-" THEN 0 - DecimalValue(body)
                   ELSE DecimalValue(body))
        ELSE ValueError

\* mutant of ParseAmount: the minus sign of a parenthesized value is not added
ParseAmount_NoNegation(text) ==
    LET val0 == RemoveCommas(text)
        val == IF (\E n \in 1..Len(val0) : val0[n] = "(")
                  /\ (\E n \in 1..Len(val0) : val0[n] = ")")
               THEN StripChars(val0, {"(", ")"})
               ELSE val0
    IN  IF StripChars(val, Whitespace) \in {<<"-">>, <<>>}
        THEN Value(0)
        ELSE PyFloat(val)

\* lines 152-158: the text of one amount cell to a number
ParseAmount(text) ==
    LET val0 == RemoveCommas(text)
        val == IF (\E n \in 1..Len(val0) : val0[n] = "(")
                  /\ (\E n \in 1..Len(val0) : val0[n] = ")")
               THEN <<"-">> \o StripChars(val0, {"(", ")"})
               ELSE val0
    IN  IF StripChars(val, Whitespace) \in {<<"-">>, <<>>}
        THEN Value(0)
        ELSE PyFloat(val)

-----------------------------------------------------------------------------
(* Records: a DataFrame is its set of columns and its sequence of rows; a  *)
(* row maps each column to the text of its cell                            *)

COL_NAME == "account_nm"
COL_CURR == "thstrm_amount"
COL_ADD == "thstrm_add_amount"

\* one row of a record with the cumulative column, and of one without
RowWithAdd(name, cells) ==
    [c \in {COL_NAME, COL_CURR, COL_ADD} |->
        IF c = COL_NAME THEN name ELSE IF c = COL_CURR THEN cells[1] ELSE cells[2]]

RowWithoutAdd(name, cells) ==
    [c \in {COL_NAME, COL_CURR} |-> IF c = COL_NAME THEN name ELSE cells[1]]

DataFrame(columns, rowseq) == [columns |-> columns, rows |-> rowseq]

\* pd.DataFrame(): no columns, no rows
EmptyDataFrame == DataFrame({}, <<>>)

\* mutant of IsEmpty: the test is "df is None", which no fetch satisfies
IsEmpty_IsNone(d) == d = None

\* df.empty
IsEmpty(d) == Len(d.rows) = 0

\* the canonical metric keys, in the order of the dict literal (lines 164-171):
\* Revenue = maechulaek, CostOfSales = maechulwonga, GrossProfit =
\* maechulchongiik, OperatingProfit = yeongeopiik, NetIncome = danggisuniik,
\* SGA = pangwanbi, SellingExpenses = panmaebi, AdminExpenses = gwanribi
KEYS == {"Revenue", "CostOfSales", "GrossProfit", "OperatingProfit",
         "NetIncome", "SGA", "SellingExpenses", "AdminExpenses"}

\* the synonym list of each key, in list order (lines 164-171)
KEYWORDS ==
    [k \in KEYS |->
       CASE k = "Revenue" ->
              << <<"mae_", "chul_", "aek_">>,
                 <<"r", "e", "v", "e", "n", "u", "e">>,
                 <<"s", "a", "l", "e", "s">> >>
         [] k = "CostOfSales" ->
              << <<"mae_", "chul_", "won_", "ga_">>,
                 <<"c", "o", "s", "t", " ", "o", "f", " ", "s", "a", "l", "e", "s">> >>
         [] k = "GrossProfit" ->
              << <<"mae_", "chul_", "chong_", "i_", "ik_">>,
                 <<"g", "r", "o", "s", "s", " ", "p", "r", "o", "f", "i", "t">>,
                 <<"chong_", "i_", "ik_">> >>
         [] k = "OperatingProfit" ->
              << <<"yeong_", "eop_", "i_", "ik_">>,
                 <<"o", "p", "e", "r", "a", "t", "i", "n", "g", " ",
                   "p", "r", "o", "f", "i", "t">>,
                 <<"yeong_", "eop_", "son_", "ik_">> >>
         [] k = "NetIncome" ->
              << <<"dang_", "gi_", "sun_", "i_", "ik_">>,
                 <<"n", "e", "t", " ", "i", "n", "c", "o", "m", "e">>,
                 <<"sun_", "i_", "ik_">> >>
         [] k = "SGA" ->
              << <<"pan_", "mae_", "bi_", "wa_", "gwan_", "ri_", "bi_">>,
                 <<"pan_", "gwan_", "bi_">>,
                 <<"s", "e", "l", "l", "i", "n", "g", " ", "a", "n", "d", " ",
                   "a", "d", "m", "i", "n", "i", "s", "t", "r", "a", "t", "i", "v", "e">> >>
         [] k = "SellingExpenses" ->
              << <<"pan_", "mae_", "bi_">>,
                 <<"s", "e", "l", "l", "i", "n", "g", " ",
                   "e", "x", "p", "e", "n", "s", "e", "s">> >>
         [] k = "AdminExpenses" ->
              << <<"gwan_", "ri_", "bi_">>,
                 <<"a", "d", "m", "i", "n", "i", "s", "t", "r", "a", "t", "i", "v", "e", " ",
                   "e", "x", "p", "e", "n", "s", "e", "s">> >>]

\* str.contains(keyword, case=False): keyword occurs in name, ignoring case
\* (no keyword holds a regular-expression metacharacter)
Contains(name, keyword) ==
    \E s \in 1..(Len(name) - Len(keyword) + 1) :
        \A n \in 1..Len(keyword) : LowerChar(name[s + n - 1]) = LowerChar(keyword[n])

\* line 148: the indices of the rows whose account name contains keyword
MatchingRows(d, keyword) ==
    {n \in 1..Len(d.rows) : Contains(d.rows[n][COL_NAME], keyword)}

\* rows.iloc[0]
FirstRow(matching) == CHOOSE n \in matching : \A m \in matching : n <= m

\* line 151: rows.iloc[0].get(column, '0')
Cell(d, n, col) == IF col \in d.columns THEN d.rows[n][col] ELSE <<"0">>

\* mutant of find_amount: a parse failure is not caught and ends the lookup
RECURSIVE find_amount_Raises(_, _, _, _)
find_amount_Raises(d, col, keywords, k) ==
    IF k > Len(keywords) THEN Value(0)
    ELSE LET rs == MatchingRows(d, keywords[k])
         IN  IF rs = {} THEN find_amount_Raises(d, col, keywords, k + 1)
             ELSE ParseAmount(Cell(d, FirstRow(rs), col))

\* mutant of find_amount: the rows are scanned first, so the first row that
\* contains any of the keywords is read
find_amount_RowsFirst(d, col, keywords, k) ==
    LET rs == UNION {MatchingRows(d, keywords[j]) : j \in k..Len(keywords)}
    IN  IF rs = {} THEN Value(0)
        ELSE LET r == ParseAmount(Cell(d, FirstRow(rs), col))
             IN  IF r.ok THEN r ELSE Value(0)

\* lines 146-161: the loop over the keywords from the k-th on
RECURSIVE find_amount(_, _, _, _)
find_amount(d, col, keywords, k) ==
    IF k > Len(keywords) THEN Value(0)
    ELSE LET rs == MatchingRows(d, keywords[k])
         IN  IF rs = {} THEN find_amount(d, col, keywords, k + 1)
             ELSE LET r == ParseAmount(Cell(d, FirstRow(rs), col))
                  IN  IF r.ok THEN r ELSE find_amount(d, col, keywords, k + 1)

\* an exception that left the operation
Raised == [raised |-> TRUE]

\* lines 143-172: the map of all keys, unless a lookup raised; df['account_nm']
\* (line 148, outside the try) raises KeyError on a record without that column
_extract_raw_amounts(d, col) ==
    IF COL_NAME \notin d.columns THEN Raised
    ELSE LET found == [k \in KEYS |-> find_amount(d, col, KEYWORDS[k], 1)]
         IN  IF \A k \in KEYS : found[k].ok
             THEN [k \in KEYS |-> found[k].val]
             ELSE Raised

-----------------------------------------------------------------------------
(* _build_display_row: a display row maps field names to values.  A scaled *)
(* amount v / 10^e is kept as the pair (v, e); a ratio is kept as the      *)
(* fraction in lowest terms that the division yields.                      *)

\* 1_000_000_000_000 = 10^TRILLION_EXP (lines 182-184)
TRILLION_EXP == 12
\* 100_000_000 = 10^HUNDRED_MILLION_EXP (lines 185-187)
HUNDRED_MILLION_EXP == 8

Scaled(v, e) == [num |-> v, pow10 |-> e]

Abs(n) == IF n < 0 THEN 0 - n ELSE n

RECURSIVE GCD(_, _)
GCD(a, b) == IF b = 0 THEN a ELSE GCD(b, a % b)

\* the rational number n / d (d # 0), in lowest terms with a positive denominator
Fraction(n, d) ==
    LET g == GCD(Abs(n), Abs(d))
        sgn == IF d < 0 THEN 0 - 1 ELSE 1
    IN  [num |-> sgn * (n \div g), den |-> Abs(d) \div g]

\* (a / sales) * 100
Percent(a, sales) == Fraction(100 * a, sales)

\* the amount fields and the key and scale of each (lines 182-187)
AmountFields ==
    [f \in {"Revenue_trillion", "CostOfSales_trillion", "GrossProfit_trillion",
            "OperatingProfit_100M", "NetIncome_100M", "SGA_100M"} |->
       CASE f = "Revenue_trillion"     -> [key |-> "Revenue",         exp |-> TRILLION_EXP]
         [] f = "CostOfSales_trillion" -> [key |-> "CostOfSales",     exp |-> TRILLION_EXP]
         [] f = "GrossProfit_trillion" -> [key |-> "GrossProfit",     exp |-> TRILLION_EXP]
         [] f = "OperatingProfit_100M" -> [key |-> "OperatingProfit", exp |-> HUNDRED_MILLION_EXP]
         [] f = "NetIncome_100M"       -> [key |-> "NetIncome",       exp |-> HUNDRED_MILLION_EXP]
         [] f = "SGA_100M"             -> [key |-> "SGA",             exp |-> HUNDRED_MILLION_EXP]]

\* the ratio fields and the numerator key of each (lines 192-195)
RatioFields ==
    [f \in {"OperatingMargin_pct", "GrossMargin_pct", "NetMargin_pct", "CostRatio_pct"} |->
       CASE f = "OperatingMargin_pct" -> "OperatingProfit"
         [] f = "GrossMargin_pct"     -> "GrossProfit"
         [] f = "NetMargin_pct"       -> "NetIncome"
         [] f = "CostRatio_pct"       -> "CostOfSales"]

\* mutant of Truthy: only a positive amount counts, as in _extract_key_metrics
Truthy_PositiveOnly(m, k) == k \in DOMAIN m /\ m[k] > 0

\* "if raw.get(k):" the key is in the map and its value is not zero
Truthy(m, k) == k \in DOMAIN m /\ m[k] # 0

\* mutant of RatioPresent: the ratio also needs a non-zero numerator
RatioPresent_NeedsNumerator(m, k) == Truthy(m, "Revenue") /\ Truthy(m, k)

\* lines 190-195: "if sales:" and "if k in raw:"
RatioPresent(m, k) == Truthy(m, "Revenue") /\ k \in DOMAIN m

\* lines 175-196
_build_display_row(company, year, label, m, report_name) ==
    LET ident == {"company", "year", "quarter"}
                 \cup (IF report_name # "" THEN {"report"} ELSE {})
        amounts == {f \in DOMAIN AmountFields : Truthy(m, AmountFields[f].key)}
        ratios == {f \in DOMAIN RatioFields : RatioPresent(m, RatioFields[f])}
    IN  [f \in ident \cup amounts \cup ratios |->
           CASE f = "company" -> company
             [] f = "year"    -> year
             [] f = "quarter" -> label
             [] f = "report"  -> report_name
             [] f \in amounts -> Scaled(m[AmountFields[f].key], AmountFields[f].exp)
             [] f \in ratios  -> Percent(m[RatioFields[f]], m["Revenue"])]

-----------------------------------------------------------------------------
(* collect_quarterly_data *)

\* default of the year parameter (line 198)
YEAR == 2024

COMPANIES == {"SK Innovation", "S-Oil"}

\* the keys of self.report_codes in insertion order (lines 129-134)
QUARTERS == <<"Q1", "Q2", "Q3", "Q4">>

\* self.report_codes (lines 129-134)
report_codes ==
    [q \in {"Q1", "Q2", "Q3", "Q4"} |->
       CASE q = "Q1" -> "11013" [] q = "Q2" -> "11012"
         [] q = "Q3" -> "11014" [] q = "Q4" -> "11011"]

\* the column that get_financial_statement adds (line 86)
COL_REPORT == "report_type"

\* lines 82-90: the DataFrame made of a response of the filings API; a
\* response without data and a failed request both give an empty DataFrame
get_financial_statement(outcome, reprt_code) ==
    IF outcome.kind = "response" /\ outcome.status = "000" /\ outcome.has_list
    THEN DataFrame(outcome.columns \cup {COL_REPORT},
                   [n \in 1..Len(outcome.list) |->
                      [c \in outcome.columns \cup {COL_REPORT} |->
                         IF c = COL_REPORT THEN reprt_code ELSE outcome.list[n][c]]])
    ELSE EmptyDataFrame

EmptyDict == [k \in {} |-> 0]

\* d.get(k, default)
Get(d, k, default) == IF k \in DOMAIN d THEN d[k] ELSE default

\* dst[k] = v on a dict
Put(d, k, v) == [x \in DOMAIN d \cup {k} |-> IF x = k THEN v ELSE d[x]]

RECURSIVE SumOver(_, _, _)
SumOver(ds, k, n) ==
    IF n = 0 THEN 0
    ELSE SumOver(ds, k, n - 1)
         + (IF DOMAIN ds[n] # {} THEN Get(ds[n], k, 0) ELSE 0)

\* mutant of add_dicts: the last dict is left out of the sum
add_dicts_DropsLast(ds) ==
    LET keys == UNION {DOMAIN ds[n] : n \in 1..Len(ds)}
    IN  [k \in keys |-> SumOver(ds, k, Len(ds) - 1)]

\* lines 227-229: key-wise sum of the non-empty dicts of the sequence ds
add_dicts(ds) ==
    LET keys == UNION {DOMAIN ds[n] : n \in 1..Len(ds)}
    IN  [k \in keys |-> SumOver(ds, k, Len(ds))]

\* lines 231-233: key-wise difference over the union of the keys
sub_dict(a, b) ==
    [k \in DOMAIN a \cup DOMAIN b |-> Get(a, k, 0) - Get(b, k, 0)]

\* mutant of PassThrough: a quarter has the previous quarter subtracted, as
\* if the filings were cumulative
PassThrough_Differenced(c, q) ==
    IF q = "Q1" \/ q \notin DOMAIN c THEN Get(c, q, EmptyDict)
    ELSE sub_dict(c[q], Get(c, IF q = "Q2" THEN "Q1" ELSE "Q2", EmptyDict))

\* lines 236-238: curr.get(q, {})
PassThrough(c, q) == Get(c, q, EmptyDict)

\* mutant of DeriveQ4: without the annual filing Q4 is computed from zeros
DeriveQ4_ZeroFilled(c, a, b, d) ==
    sub_dict(Get(c, "Q4", [k \in KEYS |-> 0]), add_dicts(<<a, b, d>>))

\* lines 241-244
DeriveQ4(c, a, b, d) ==
    IF "Q4" \in DOMAIN c THEN sub_dict(c["Q4"], add_dicts(<<a, b, d>>))
    ELSE EmptyDict

\* the labels of the rows: f"{year}Q1" .. f"{year}Q4" and the annual label
Label(year, q) == <<year, q>>

\* mutant of AnnualAmounts: the annual row shows the derived Q4 amounts
AnnualAmounts_Derived(cumulative, derived) == derived

\* line 263: the annual row is built from cum['Q4']
AnnualAmounts(cumulative, derived) == cumulative["Q4"]

\* mutant of TableRows: the annual row is put before the quarters
TableRows_AnnualFirst(company, year, a, b, c, d, cumulative) ==
    (IF "Q4" \in DOMAIN cumulative
     THEN << _build_display_row(company, year, Label(year, "Annual"),
                                AnnualAmounts(cumulative, d), "Annual (business report)") >>
     ELSE <<>>)
    \o (IF DOMAIN a # {}
        THEN << _build_display_row(company, year, Label(year, "Q1"), a, "Q1 (period)") >>
        ELSE <<>>)
    \o (IF DOMAIN b # {}
        THEN << _build_display_row(company, year, Label(year, "Q2"), b, "Q2 (period)") >>
        ELSE <<>>)
    \o (IF DOMAIN c # {}
        THEN << _build_display_row(company, year, Label(year, "Q3"), c, "Q3 (period)") >>
        ELSE <<>>)
    \o (IF DOMAIN d # {}
        THEN << _build_display_row(company, year, Label(year, "Q4"), d, "Q4 (period)") >>
        ELSE <<>>)

\* mutant of TableRows: a row is appended only when some amount is not zero
TableRows_SkipsZeroRows(company, year, a, b, c, d, cumulative) ==
    LET some(m) == \E k \in DOMAIN m : m[k] # 0
    IN  (IF some(a)
         THEN << _build_display_row(company, year, Label(year, "Q1"), a, "Q1 (period)") >>
         ELSE <<>>)
        \o (IF some(b)
            THEN << _build_display_row(company, year, Label(year, "Q2"), b, "Q2 (period)") >>
            ELSE <<>>)
        \o (IF some(c)
            THEN << _build_display_row(company, year, Label(year, "Q3"), c, "Q3 (period)") >>
            ELSE <<>>)
        \o (IF some(d)
            THEN << _build_display_row(company, year, Label(year, "Q4"), d, "Q4 (period)") >>
            ELSE <<>>)
        \o (IF "Q4" \in DOMAIN cumulative /\ some(AnnualAmounts(cumulative, d))
            THEN << _build_display_row(company, year, Label(year, "Annual"),
                                       AnnualAmounts(cumulative, d), "Annual (business report)") >>
            ELSE <<>>)

\* lines 256-263: the rows of the table, in the order they are appended
TableRows(company, year, a, b, c, d, cumulative) ==
    (IF DOMAIN a # {}
     THEN << _build_display_row(company, year, Label(year, "Q1"), a, "Q1 (period)") >>
     ELSE <<>>)
    \o (IF DOMAIN b # {}
        THEN << _build_display_row(company, year, Label(year, "Q2"), b, "Q2 (period)") >>
        ELSE <<>>)
    \o (IF DOMAIN c # {}
        THEN << _build_display_row(company, year, Label(year, "Q3"), c, "Q3 (period)") >>
        ELSE <<>>)
    \o (IF DOMAIN d # {}
        THEN << _build_display_row(company, year, Label(year, "Q4"), d, "Q4 (period)") >>
        ELSE <<>>)
    \o (IF "Q4" \in DOMAIN cumulative
        THEN << _build_display_row(company, year, Label(year, "Annual"),
                                   AnnualAmounts(cumulative, d), "Annual (business report)") >>
        ELSE <<>>)

-----------------------------------------------------------------------------
(* Specification of collect_quarterly_data: every company of COMPANIES and, *)
(* for each report code, every response of ApiOutcomes                      *)

RECURSIVE DigitsText(_)
DigitsText(n) ==
    IF n < 10 THEN <<Digits[n + 1]>>
    ELSE DigitsText(n \div 10) \o <<Digits[(n % 10) + 1]>>

RECURSIVE Grouped(_)
Grouped(t) ==
    IF Len(t) <= 3 THEN t
    ELSE Grouped(SubSeq(t, 1, Len(t) - 3)) \o <<",">> \o SubSeq(t, Len(t) - 2, Len(t))

\* an amount as filings print it: thousands separators, a negative amount in
\* parentheses, zero as a dash
FormatAmount(v) ==
    IF v = 0 THEN <<"-">>
    ELSE IF v < 0 THEN <<"(">> \o Grouped(DigitsText(0 - v)) \o <<")">>
    ELSE Grouped(DigitsText(v))

\* the income-statement lines of filing n: account name and current amount
FilingLines(n) ==
    << [name |-> <<"mae_", "chul_", "aek_">>,                    amount |-> 1000 * n],
       [name |-> <<"mae_", "chul_", "won_", "ga_">>,             amount |-> 600 * n + 100],
       [name |-> <<"mae_", "chul_", "chong_", "i_", "ik_">>,     amount |-> 400 * n - 100],
       [name |-> <<"pan_", "mae_", "bi_", "wa_", "gwan_", "ri_", "bi_">>,
                                                                 amount |-> 150 * n],
       [name |-> <<"yeong_", "eop_", "i_", "ik_", "(", "son_", "sil_", ")">>,
                                                                 amount |-> 300 * (n - 2)],
       [name |-> <<"dang_", "gi_", "sun_", "i_", "ik_">>,        amount |-> 70 * n - 90] >>

\* the "list" of the response for filing n, with or without the cumulative
\* column (the cumulative amount of a line is twice its amount plus 5)
FilingList(n, hasAdd) ==
    [r \in 1..Len(FilingLines(n)) |->
       LET line == FilingLines(n)[r]
       IN  IF hasAdd
           THEN RowWithAdd(line.name, <<FormatAmount(line.amount),
                                        FormatAmount(2 * line.amount + 5)>>)
           ELSE RowWithoutAdd(line.name, <<FormatAmount(line.amount)>>)]

Response(columns, list) ==
    [kind |-> "response", status |-> "000", has_list |-> TRUE,
     columns |-> columns, list |-> list]

\* what a request to the filings API can end in: an exception, a response
\* with an error status, a response with an empty list, a response with the
\* lines of a filing
ApiOutcomes ==
    { [kind |-> "exception"],
      [kind |-> "response", status |-> "013", has_list |-> FALSE],
      Response({}, <<>>) }
    \cup {Response({COL_NAME, COL_CURR, COL_ADD}, FilingList(n, TRUE)) : n \in 1..MaxFiling}
    \cup {Response({COL_NAME, COL_CURR}, FilingList(n, FALSE)) : n \in 1..MaxFiling}

Init ==
    /\ pc = "start"
    /\ company_name \in COMPANIES
    /\ i = 0
    /\ df = EmptyDict
    /\ curr = EmptyDict /\ cum = EmptyDict
    /\ q1 = None /\ q2 = None /\ q3 = None /\ q4 = None
    /\ rows = <<>>
    /\ raw = None /\ column = None
    /\ ret = None
    /\ issued = <<>>

\* lines 201-203: the company has no corp code
CorpCodeNotFound ==
    /\ pc = "start"
    /\ ret' = <<>>
    /\ pc' = "done"
    /\ UNCHANGED <<company_name, i, df, curr, cum, q1, q2, q3, q4, rows, raw, column, issued>>

\* lines 201-208: the company has a corp code
CorpCodeFound ==
    /\ pc = "start"
    /\ i' = 1
    /\ pc' = "fetch"
    /\ UNCHANGED <<company_name, df, curr, cum, q1, q2, q3, q4, rows, raw, column, ret, issued>>

\* mutant of LoopDone: the loop is left as soon as the annual filing is in
LoopDone_AfterAnnual(visited) == "Q4" \in visited

\* line 209: the for loop ends when every report code has been visited
LoopDone(visited) == visited = {QUARTERS[n] : n \in 1..Len(QUARTERS)}

\* lines 210-220: the body of the loop for quarter q, the request ending in
\* outcome; next_pc is where the loop goes afterwards
FetchStep(q, outcome, next_pc) ==
    LET d == get_financial_statement(outcome, report_codes[q])
    IN  /\ issued' = Append(issued, q)
        /\ IF d = Raised
           THEN /\ pc' = "raised"
                /\ UNCHANGED <<i, df, curr, cum>>
           ELSE /\ df' = Put(df, q, d)
                /\ IF IsEmpty(d)
                   THEN /\ pc' = next_pc
                        /\ i' = i + 1
                        /\ UNCHANGED <<curr, cum>>
                   ELSE LET c == _extract_raw_amounts(d, COL_CURR)
                            a == IF COL_ADD \in d.columns
                                 THEN _extract_raw_amounts(d, COL_ADD)
                                 ELSE c
                        IN  IF c = Raised \/ a = Raised
                            THEN /\ pc' = "raised"
                                 /\ UNCHANGED <<i, curr, cum>>
                            ELSE /\ curr' = Put(curr, q, c)
                                 /\ cum' = Put(cum, q, a)
                                 /\ pc' = next_pc
                                 /\ i' = i + 1

\* lines 209-220: one iteration of the loop over the report codes
Fetch ==
    /\ pc = "fetch"
    /\ \E outcome \in ApiOutcomes :
          FetchStep(QUARTERS[i], outcome,
                    IF i = Len(QUARTERS) THEN "check" ELSE "fetch")
    /\ UNCHANGED <<company_name, q1, q2, q3, q4, rows, raw, column, ret>>

\* lines 222-224: no report code gave data
ReturnNoData ==
    /\ pc = "check"
    /\ DOMAIN curr = {}
    /\ ret' = <<>>
    /\ pc' = "done"
    /\ UNCHANGED <<company_name, i, df, curr, cum, q1, q2, q3, q4, rows, raw, column, issued>>

\* lines 235-244: step (3)
Reconcile ==
    /\ pc = "check"
    /\ DOMAIN curr # {}
    /\ q1' = PassThrough(curr, "Q1")
    /\ q2' = PassThrough(curr, "Q2")
    /\ q3' = PassThrough(curr, "Q3")
    /\ q4' = DeriveQ4(curr, q1', q2', q3')
    /\ pc' = "build"
    /\ UNCHANGED <<company_name, i, df, curr, cum, rows, raw, column, ret, issued>>

\* lines 255-265: step (4)
BuildTable ==
    /\ pc = "build"
    /\ rows' = TableRows(company_name, YEAR, q1, q2, q3, q4, cum)
    /\ ret' = rows'
    /\ pc' = "done"
    /\ UNCHANGED <<company_name, i, df, curr, cum, q1, q2, q3, q4, raw, column, issued>>

Next == CorpCodeNotFound \/ CorpCodeFound \/ Fetch \/ ReturnNoData \/ Reconcile \/ BuildTable

Spec == Init /\ [][Next]_vars

-----------------------------------------------------------------------------
(* Specification of collect_quarterly_data with the report codes visited   *)
(* in any order: the loop of lines 209-220 takes, at each iteration, any   *)
(* report code not yet visited.  The order of self.report_codes is one of  *)
(* the orders.                                                             *)

\* the "list" of a filing whose every line prints a dash: all amounts zero
BlankList ==
    [r \in 1..Len(FilingLines(1)) |->
       RowWithoutAdd(FilingLines(1)[r].name, <<FormatAmount(0)>>)]

\* a failed request, filing 1 with the cumulative column, filing 2 without,
\* a filing of dashes
AnyOrderOutcomes ==
    { [kind |-> "exception"],
      Response({COL_NAME, COL_CURR, COL_ADD}, FilingList(1, TRUE)),
      Response({COL_NAME, COL_CURR}, FilingList(2, FALSE)),
      Response({COL_NAME, COL_CURR}, BlankList) }

\* one company: its name takes no part in the loop
InitAnyOrder == Init /\ company_name = "S-Oil"

FetchAny ==
    /\ pc = "fetch"
    /\ \E q \in {QUARTERS[n] : n \in 1..Len(QUARTERS)} \ DOMAIN df :
          \E outcome \in AnyOrderOutcomes :
              FetchStep(q, outcome,
                        IF LoopDone(DOMAIN df \cup {q}) THEN "check" ELSE "fetch")
    /\ UNCHANGED <<company_name, q1, q2, q3, q4, rows, raw, column, ret>>

NextAnyOrder ==
    CorpCodeNotFound \/ CorpCodeFound \/ FetchAny \/ ReturnNoData \/ Reconcile \/ BuildTable

SpecAnyOrder == InitAnyOrder /\ [][NextAnyOrder]_vars

-----------------------------------------------------------------------------
(* Specification of the parser alone: every text of at most MaxLen         *)
(* characters of AmountAlphabet and the documented examples                *)

AmountAlphabet == {"0", "1", ",", "(", ")", "-", " "}

RECURSIVE TextsUpTo(_)
TextsUpTo(n) ==
    IF n = 0 THEN {<<>>}
    ELSE LET shorter == TextsUpTo(n - 1)
         IN  shorter \cup {Append(t, c) : t \in {u \in shorter : Len(u) = n - 1},
                                          c \in AmountAlphabet}

DocumentedTexts == { <<"(", "1", ",", "2", "3", "4", ")">>,
                     <<"1", ",", "2", "3", "4", ",", "5", "6", "7">> }

Idle ==
    /\ company_name = None /\ i = 0 /\ df = None
    /\ curr = None /\ cum = None
    /\ q1 = None /\ q2 = None /\ q3 = None /\ q4 = None
    /\ rows = <<>>
    /\ issued = <<>>

InitParse ==
    /\ pc = "parse"
    /\ raw \in TextsUpTo(MaxLen) \cup DocumentedTexts
    /\ column = None
    /\ ret = None
    /\ Idle

Parse ==
    /\ pc = "parse"
    /\ ret' = ParseAmount(raw)
    /\ pc' = "parsed"
    /\ UNCHANGED <<company_name, i, df, curr, cum, q1, q2, q3, q4, rows, raw, column, issued>>

NextParse == Parse

SpecParse == InitParse /\ [][NextParse]_vars

-----------------------------------------------------------------------------
(* Specification of _extract_raw_amounts alone: every record of at most    *)
(* MaxRows rows drawn from RowPool, with or without the cumulative column, *)
(* read in either amount column                                            *)

\* account names: the revenue label, "Sales" (a later synonym of Revenue, in
\* another case) and the SG&A label (which also contains the selling-expenses
\* and the administrative-expenses labels)
NamePool == { <<"mae_", "chul_", "aek_">>,
              <<"S", "a", "l", "e", "s">>,
              <<"pan_", "mae_", "bi_", "wa_", "gwan_", "ri_", "bi_">> }

\* (current, cumulative) cell texts: separators, parentheses and a text
\* that is no number
CellPool == { << <<"1", ",", "0", "0", "0">>, <<"(", "5", "0", "0", ")">> >>,
              << <<"N", "/", "A">>,           <<"7", "0">> >>,
              << <<"(", "5", "0", "0", ")">>, <<"N", "/", "A">> >> }

RECURSIVE SeqsUpTo(_, _)
SeqsUpTo(S, n) ==
    IF n = 0 THEN {<<>>}
    ELSE LET shorter == SeqsUpTo(S, n - 1)
         IN  shorter \cup {Append(t, x) : t \in {u \in shorter : Len(u) = n - 1}, x \in S}

ExtractInputs ==
    LET withAdd == {RowWithAdd(n, c) : n \in NamePool, c \in CellPool}
        without == {RowWithoutAdd(n, c) : n \in NamePool, c \in CellPool}
    IN  {DataFrame({COL_NAME, COL_CURR, COL_ADD}, r) : r \in SeqsUpTo(withAdd, MaxRows)}
        \cup {DataFrame({COL_NAME, COL_CURR}, r) : r \in SeqsUpTo(without, MaxRows)}

InitExtract ==
    /\ pc = "extract"
    /\ df \in ExtractInputs
    /\ column \in {COL_CURR, COL_ADD}
    /\ raw = None
    /\ ret = None
    /\ company_name = None /\ i = 0
    /\ curr = None /\ cum = None
    /\ q1 = None /\ q2 = None /\ q3 = None /\ q4 = None
    /\ rows = <<>>
    /\ issued = <<>>

Extract ==
    /\ pc = "extract"
    /\ ret' = _extract_raw_amounts(df, column)
    /\ pc' = "extracted"
    /\ UNCHANGED <<company_name, i, df, curr, cum, q1, q2, q3, q4, rows, raw, column, issued>>

NextExtract == Extract

SpecExtract == InitExtract /\ [][NextExtract]_vars

-----------------------------------------------------------------------------
(* Specification of _build_display_row alone: every amount map whose keys  *)
(* are any of the canonical keys, with amounts in -MaxAmount..MaxAmount    *)
(* for the keys the row shows                                              *)

ShownKeys == {AmountFields[f].key : f \in DOMAIN AmountFields}

RowInputs ==
    UNION { {m \in [D -> (0 - MaxAmount)..MaxAmount] :
                \A k \in D \ ShownKeys : m[k] = 0} : D \in SUBSET KEYS }

InitRow ==
    /\ pc = "build"
    /\ raw \in RowInputs
    /\ company_name \in COMPANIES
    /\ column = None
    /\ ret = None
    /\ i = 0 /\ df = None
    /\ curr = None /\ cum = None
    /\ q1 = None /\ q2 = None /\ q3 = None /\ q4 = None
    /\ rows = <<>>
    /\ issued = <<>>

\* a call that passes report_name
BuildRowNamed ==
    /\ pc = "build"
    /\ ret' = _build_display_row(company_name, YEAR, <<YEAR, "Q4">>, raw, "Q4 (period)")
    /\ pc' = "built"
    /\ UNCHANGED <<company_name, i, df, curr, cum, q1, q2, q3, q4, rows, raw, column, issued>>

\* a call that leaves report_name at its default
BuildRowUnnamed ==
    /\ pc = "build"
    /\ ret' = _build_display_row(company_name, YEAR, <<YEAR, "Q4">>, raw, "")
    /\ pc' = "built"
    /\ UNCHANGED <<company_name, i, df, curr, cum, q1, q2, q3, q4, rows, raw, column, issued>>

NextRow == BuildRowNamed \/ BuildRowUnnamed

SpecRow == InitRow /\ [][NextRow]_vars

-----------------------------------------------------------------------------
(* Properties of collect_quarterly_data (Spec) *)

\* the fetch of quarter q's report code returned a non-empty record
Fetched(q) == q \in DOMAIN df /\ Len(df[q].rows) > 0

\* the current-period amounts of the record fetched for q
CurrentAmounts(q) == _extract_raw_amounts(df[q], COL_CURR)

\* the current-period amounts that quarter q contributes to the sum of Q1..Q3
Contribution(q) == IF Fetched(q) THEN CurrentAmounts(q) ELSE [k \in KEYS |-> 0]

\* the positions of the rows of table t that carry label q
RowsOf(t, q) == {n \in 1..Len(t) : t[n]["quarter"] = Label(YEAR, q)}

\* C1: when the annual filing is fetched, the derived Q4 amount of every key
\* is the annual current-period amount minus the current-period amounts of
\* the fetched ones of Q1, Q2, Q3 (an unfetched quarter counts as 0).
C1_DerivedQ4 ==
    (pc \in {"build", "done"} /\ Fetched("Q4")) =>
        LET annual == CurrentAmounts("Q4")
            c1 == Contribution("Q1")
            c2 == Contribution("Q2")
            c3 == Contribution("Q3")
        IN  /\ DOMAIN q4 = KEYS
            /\ \A k \in KEYS : q4[k] = annual[k] - (c1[k] + c2[k] + c3[k])

\* all four filings were fetched and the Q4 row shows a difference
C1_Witness ==
    /\ pc = "done"
    /\ \A q \in {"Q1", "Q2", "Q3", "Q4"} : Fetched(q)
    /\ q4["Revenue"] # curr["Q4"]["Revenue"]
    /\ q4["OperatingProfit"] < 0
    /\ RowsOf(ret, "Q4") # {}

\* C2: when the annual filing is not fetched, whatever of Q1, Q2, Q3 is
\* fetched, the reconciled Q4 is empty and the table has no Q4 row.
C2_NoQ4WithoutAnnual ==
    /\ (pc \in {"build", "done"} /\ DOMAIN curr # {} /\ ~Fetched("Q4")) => DOMAIN q4 = {}
    /\ (pc = "done" /\ ~Fetched("Q4")) => RowsOf(ret, "Q4") = {}

\* Q1 and Q3 were fetched, the annual filing was not, and the table is built
C2_Witness ==
    /\ pc = "done"
    /\ Fetched("Q1") /\ Fetched("Q3") /\ ~Fetched("Q4")
    /\ "Q4" \in DOMAIN df
    /\ Len(ret) = 2

\* C3: as long as every fetch made returned an empty record no exception
\* leaves collect_quarterly_data; after the four fetches the function can
\* return, and what it returns is the empty table.
C3_AllEmptyGivesEmptyTable ==
    (\A q \in DOMAIN df : Len(df[q].rows) = 0) =>
        /\ pc # "raised"
        /\ pc = "check" => ENABLED ReturnNoData
        /\ pc = "done" => ret = <<>>

\* the four fetches were made, all returned empty, and the call returned
C3_Witness ==
    /\ pc = "done"
    /\ DOMAIN df = {"Q1", "Q2", "Q3", "Q4"}
    /\ \A q \in DOMAIN df : Len(df[q].rows) = 0
    /\ ret = <<>>

\* the report_name of each quarter's row (lines 257-259)
PeriodName(q) ==
    CASE q = "Q1" -> "Q1 (period)" [] q = "Q2" -> "Q2 (period)" [] q = "Q3" -> "Q3 (period)"

\* C4: for q in Q1..Q3 the table has a row for q exactly when q's own fetch
\* returned a non-empty record, and that row is the display row of q's own
\* current-period amounts, whatever the other fetches returned.
C4_QuarterRowsPassThrough ==
    pc = "done" =>
        \A q \in {"Q1", "Q2", "Q3"} :
            /\ RowsOf(ret, q) # {} <=> Fetched(q)
            /\ \A n \in RowsOf(ret, q) :
                  LET own == CurrentAmounts(q)
                  IN  /\ ret[n] = _build_display_row(company_name, YEAR, Label(YEAR, q),
                                                     own, PeriodName(q))
                      /\ ret[n]["Revenue_trillion"] = [num |-> own["Revenue"], pow10 |-> 12]

\* Q2 and Q3 have their rows although the fetches of Q1 and of the annual
\* filing gave nothing
C4_Witness ==
    /\ pc = "done"
    /\ ~Fetched("Q1") /\ Fetched("Q2") /\ Fetched("Q3") /\ ~Fetched("Q4")
    /\ "Q1" \in DOMAIN df
    /\ RowsOf(ret, "Q2") # {} /\ RowsOf(ret, "Q3") # {}

\* C7: the Annual row is built from the annual record's cumulative column
\* when the record has one and from its current-period column when it has
\* none; it does not depend on Q1, Q2, Q3 or on the derived Q4.
C7_AnnualRowFromCumulative ==
    (pc = "done" /\ Fetched("Q4")) =>
        /\ RowsOf(ret, "Annual") = {Len(ret)}
        /\ ret[Len(ret)] =
              _build_display_row(company_name, YEAR, Label(YEAR, "Annual"),
                                 IF COL_ADD \in df["Q4"].columns
                                 THEN _extract_raw_amounts(df["Q4"], COL_ADD)
                                 ELSE CurrentAmounts("Q4"),
                                 "Annual (business report)")

\* the annual record has a cumulative column, Q1 was fetched, and the Annual
\* row differs from the Q4 row in its revenue
C7_Witness ==
    /\ pc = "done"
    /\ Fetched("Q4") /\ Fetched("Q1")
    /\ COL_ADD \in df["Q4"].columns
    /\ ret[Len(ret)]["Revenue_trillion"].num = cum["Q4"]["Revenue"]
    /\ cum["Q4"]["Revenue"] # q4["Revenue"]
    /\ cum["Q4"]["Revenue"] # curr["Q4"]["Revenue"]

LabelOrder == <<"Q1", "Q2", "Q3", "Q4", "Annual">>

\* the place of a row's label in (Q1, Q2, Q3, Q4, Annual); 0 for another label
Rank(row) ==
    IF \E r \in 1..Len(LabelOrder) : row["quarter"] = Label(YEAR, LabelOrder[r])
    THEN CHOOSE r \in 1..Len(LabelOrder) : row["quarter"] = Label(YEAR, LabelOrder[r])
    ELSE 0

\* C8: the rows of the returned table are a subsequence of (Q1, Q2, Q3, Q4,
\* Annual): every label is one of the five, the labels come in that order
\* without repetition, there are at most five rows, and a quarter that gave
\* no data has no row.
C8_RowOrder ==
    pc = "done" =>
        /\ Len(ret) <= 5
        /\ \A n \in 1..Len(ret) : Rank(ret[n]) > 0
        /\ \A n, m \in 1..Len(ret) : n < m => Rank(ret[n]) < Rank(ret[m])
        /\ \A q \in {"Q1", "Q2", "Q3", "Q4"} : RowsOf(ret, q) # {} => Fetched(q)
        /\ RowsOf(ret, "Annual") # {} => Fetched("Q4")

\* Q2 gave no data: the table is Q1, Q3, Q4, Annual
C8_Witness ==
    /\ pc = "done"
    /\ Fetched("Q1") /\ ~Fetched("Q2") /\ Fetched("Q3") /\ Fetched("Q4")
    /\ Len(ret) = 4
    /\ Rank(ret[2]) = 3

-----------------------------------------------------------------------------
(* Properties of _build_display_row (SpecRow) *)

\* C5: each amount field is in the row exactly when its key's value is in the
\* map and not zero, and then holds that value, sign included, over 10^12
\* (Revenue, CostOfSales, GrossProfit) or 10^8 (OperatingProfit, NetIncome,
\* SGA).
C5_AmountFields ==
    pc = "built" =>
        /\ \A k \in {"Revenue", "CostOfSales", "GrossProfit"} :
              LET f == CHOOSE g \in DOMAIN AmountFields : AmountFields[g].key = k
              IN  /\ f \in DOMAIN ret <=> (k \in DOMAIN raw /\ raw[k] # 0)
                  /\ f \in DOMAIN ret => ret[f] = [num |-> raw[k], pow10 |-> 12]
        /\ \A k \in {"OperatingProfit", "NetIncome", "SGA"} :
              LET f == CHOOSE g \in DOMAIN AmountFields : AmountFields[g].key = k
              IN  /\ f \in DOMAIN ret <=> (k \in DOMAIN raw /\ raw[k] # 0)
                  /\ f \in DOMAIN ret => ret[f] = [num |-> raw[k], pow10 |-> 8]

\* a negative OperatingProfit is in the row with its sign, next to a Revenue
\* of 0 that has no field
C5_Witness ==
    /\ pc = "built"
    /\ "OperatingProfit" \in DOMAIN raw /\ raw["OperatingProfit"] < 0
    /\ "OperatingProfit_100M" \in DOMAIN ret
    /\ ret["OperatingProfit_100M"].num < 0
    /\ "Revenue" \in DOMAIN raw /\ raw["Revenue"] = 0
    /\ "Revenue_trillion" \notin DOMAIN ret

\* C6: each ratio field is in the row exactly when Revenue is in the map and
\* not zero and the numerator key is in the map, and then its value is
\* numerator / Revenue x 100; the numerator's value does not gate it.
C6_RatioFields ==
    pc = "built" =>
        \A f \in DOMAIN RatioFields :
            LET k == RatioFields[f]
            IN  /\ f \in DOMAIN ret <=>
                      ("Revenue" \in DOMAIN raw /\ raw["Revenue"] # 0 /\ k \in DOMAIN raw)
                /\ f \in DOMAIN ret =>
                      /\ ret[f].den > 0
                      /\ ret[f].num * raw["Revenue"] = 100 * raw[k] * ret[f].den

\* a GrossProfit of 0 gives a gross margin of 0 and no GrossProfit field
C6_Witness ==
    /\ pc = "built"
    /\ "Revenue" \in DOMAIN raw /\ raw["Revenue"] # 0
    /\ "GrossProfit" \in DOMAIN raw /\ raw["GrossProfit"] = 0
    /\ "GrossMargin_pct" \in DOMAIN ret /\ ret["GrossMargin_pct"].num = 0
    /\ "GrossProfit_trillion" \notin DOMAIN ret
    /\ "OperatingProfit" \notin DOMAIN raw
    /\ "OperatingMargin_pct" \notin DOMAIN ret

-----------------------------------------------------------------------------
(* Properties of the parser (SpecParse) *)

\* a text of digits and thousands separators with at least one digit
PlainNumber(t) ==
    /\ \E n \in 1..Len(t) : IsDigit(t[n])
    /\ \A n \in 1..Len(t) : IsDigit(t[n]) \/ t[n] = ","

DigitsOf(t) == SelectSeq(t, IsDigit)

\* C9: the parser strips thousands separators (a text of digits and commas
\* parses to the number its digits spell), reads a parenthesized number (N)
\* as -N, and reads "-" and the empty text as 0.
C9_ParserConventions ==
    pc = "parsed" =>
        /\ PlainNumber(raw) => ret = Value(DecimalValue(DigitsOf(raw)))
        /\ ( /\ Len(raw) >= 2
             /\ raw[1] = "(" /\ raw[Len(raw)] = ")"
             /\ PlainNumber(SubSeq(raw, 2, Len(raw) - 1)) )
           => ret = Value(0 - DecimalValue(DigitsOf(raw)))
        /\ raw \in {<<"-">>, <<>>} => ret = Value(0)

\* "(1,234)" has been parsed, to -1234
C9_Witness ==
    /\ pc = "parsed"
    /\ raw = <<"(", "1", ",", "2", "3", "4", ")">>
    /\ ret = Value(0 - 1234)

-----------------------------------------------------------------------------
(* Properties of _extract_raw_amounts (SpecExtract) *)

\* the keywords of key that match some row of d
Matched(d, key) ==
    {k \in 1..Len(KEYWORDS[key]) : MatchingRows(d, KEYWORDS[key][k]) # {}}

\* the parse of the cell that the k-th keyword of key selects
Candidate(d, col, key, k) ==
    ParseAmount(Cell(d, FirstRow(MatchingRows(d, KEYWORDS[key][k])), col))

\* the matched keywords of key whose cell parses
Parsable(d, col, key) == {k \in Matched(d, key) : Candidate(d, col, key, k).ok}

Least(S) == CHOOSE n \in S : \A m \in S : n <= m

\* C10: a parse failure makes that keyword match a non-match: each key's value
\* is the amount of its first matched keyword whose cell parses, 0 if there is
\* none; the extraction is never aborted: the map has all eight keys, and a
\* key without a parse failure of its own has the amount of its first matched
\* keyword whatever failed for the other keys.
C10_ParseFailureIsLocal ==
    pc = "extracted" =>
        /\ ret # Raised
        /\ DOMAIN ret = KEYS
        /\ \A key \in KEYS :
              LET good == Parsable(df, column, key)
              IN  ret[key] = IF good = {} THEN 0
                             ELSE Candidate(df, column, key, Least(good)).val
        /\ \A key \in KEYS :
              LET hit == Matched(df, key)
              IN  (hit # {} /\ Parsable(df, column, key) = hit)
                  => ret[key] = Candidate(df, column, key, Least(hit)).val

\* the first matched keyword of Revenue failed to parse and a later one gave
\* its value, while SGA, without a failure, has its own value
C10_Witness ==
    /\ pc = "extracted"
    /\ DOMAIN ret = KEYS
    /\ LET hit == Matched(df, "Revenue")
       IN  /\ hit # {}
           /\ ~Candidate(df, column, "Revenue", Least(hit)).ok
           /\ ret["Revenue"] # 0
    /\ Matched(df, "SGA") # {}
    /\ Parsable(df, column, "SGA") = Matched(df, "SGA")
    /\ ret["SGA"] # 0

\* row r is the first row of d, in record order, whose account name contains
\* keyword
IsFirstRowWith(d, r, keyword) ==
    /\ Contains(d.rows[r][COL_NAME], keyword)
    /\ \A n \in 1..(r - 1) : ~Contains(d.rows[n][COL_NAME], keyword)

\* C11 as stated: each key's value is the amount of the first row that
\* contains the earliest synonym matching any row (an amount that is no
\* number counting as 0), and 0 when no synonym matches; a row of a later
\* synonym is used only if no earlier synonym matches.
C11_EarliestMatchedSynonymAlways ==
    pc = "extracted" =>
        \A key \in KEYS :
            LET hit == Matched(df, key)
            IN  ret[key] = IF hit = {} THEN 0
                           ELSE LET c == Candidate(df, column, key, Least(hit))
                                IN  IF c.ok THEN c.val ELSE 0

\* C11 (amended): each key's value is read from the first row, in record
\* order, that contains the earliest synonym of the key's list whose first
\* matching row has an amount that parses; synonym order takes precedence
\* over row order, and a later synonym is used only if every earlier synonym
\* matches no row or selects an amount that does not parse; the value is 0
\* when there is no such synonym.
C11_SynonymOrderBeforeRowOrder ==
    pc = "extracted" =>
        \A key \in KEYS :
            LET kws == KEYWORDS[key]
                usable(k) == \E r \in 1..Len(df.rows) :
                                /\ IsFirstRowWith(df, r, kws[k])
                                /\ ParseAmount(Cell(df, r, column)).ok
            IN  IF \A k \in 1..Len(kws) : ~usable(k)
                THEN ret[key] = 0
                ELSE \E k \in 1..Len(kws), r \in 1..Len(df.rows) :
                        /\ IsFirstRowWith(df, r, kws[k])
                        /\ ParseAmount(Cell(df, r, column)).ok
                        /\ ret[key] = ParseAmount(Cell(df, r, column)).val
                        /\ \A j \in 1..(k - 1) : ~usable(j)

\* a row with a later synonym of Revenue ("Sales") comes before the row with
\* its first synonym, both amounts parse and differ, and Revenue has the
\* amount of the later row
C11_Witness ==
    /\ pc = "extracted"
    /\ DOMAIN ret = KEYS
    /\ \E n, m \in 1..Len(df.rows) :
          /\ n < m
          /\ IsFirstRowWith(df, n, KEYWORDS["Revenue"][3])
          /\ IsFirstRowWith(df, m, KEYWORDS["Revenue"][1])
          /\ ParseAmount(Cell(df, n, column)).ok
          /\ ParseAmount(Cell(df, m, column)).ok
          /\ ParseAmount(Cell(df, n, column)).val # ParseAmount(Cell(df, m, column)).val
          /\ ret["Revenue"] = ParseAmount(Cell(df, m, column)).val

-----------------------------------------------------------------------------
(* C12 *)

\* the table that lines 222-265 give for the frames held in d, whatever the
\* order in which the frames came in
TableOf(company, d) ==
    LET got  == {q \in DOMAIN d : Len(d[q].rows) > 0}
        c    == [q \in got |-> _extract_raw_amounts(d[q], COL_CURR)]
        u    == [q \in got |-> IF COL_ADD \in d[q].columns
                               THEN _extract_raw_amounts(d[q], COL_ADD)
                               ELSE c[q]]
        a    == PassThrough(c, "Q1")
        b    == PassThrough(c, "Q2")
        e    == PassThrough(c, "Q3")
    IN  IF got = {} THEN <<>>
        ELSE TableRows(company, YEAR, a, b, e, DeriveQ4(c, a, b, e), u)

\* C12: the loop over the report codes is left, and reconciliation starts,
\* only when each of the four report codes has been fetched (its request
\* returned or failed); and the table returned is fixed by the outcome of
\* each report code alone, whatever the order in which they were fetched.
C12_ReconcileAfterAllFetches ==
    /\ (pc \in {"check", "build"} \/ (pc = "done" /\ issued # <<>>)) =>
          /\ DOMAIN df = {QUARTERS[n] : n \in 1..Len(QUARTERS)}
          /\ Len(issued) = Len(QUARTERS)
    /\ (pc = "done" /\ issued # <<>>) => ret = TableOf(company_name, df)

\* fetched annual filing first and Q1 after Q2, every request giving data
C12_Witness ==
    /\ pc = "done"
    /\ issued = <<"Q4", "Q2", "Q1", "Q3">>
    /\ \A q \in DOMAIN df : Len(df[q].rows) > 0
    /\ df["Q1"] # df["Q2"]
    /\ Len(ret) = 5
    /\ ret = TableOf(company_name, df)

-----------------------------------------------------------------------------
(* C13 *)

\* the fields of a row that say what the row is
IdentityFields == {"company", "year", "quarter", "report"}

AllZero(m) == DOMAIN m = KEYS /\ \A k \in KEYS : m[k] = 0

\* C13: a returned table has a Q4 row exactly when the annual filing's fetch
\* gave a non-empty record, and an Annual row exactly then too, whatever the
\* amounts are; a Q4 or Annual row whose amounts are all zero carries the
\* identity fields only.
C13_Q4AndAnnualRowsTogether ==
    pc = "done" =>
        /\ RowsOf(ret, "Q4") # {} <=> Fetched("Q4")
        /\ RowsOf(ret, "Annual") # {} <=> Fetched("Q4")
        /\ \A n \in RowsOf(ret, "Q4") : AllZero(q4) => DOMAIN ret[n] = IdentityFields
        /\ \A n \in RowsOf(ret, "Annual") :
              AllZero(cum["Q4"]) => DOMAIN ret[n] = IdentityFields

\* the annual filing prints dashes only and so does the only other filing
\* fetched: the derived Q4 amounts and the annual cumulative amounts are all
\* zero, and the table has both rows
C13_Witness ==
    /\ pc = "done"
    /\ Fetched("Q4") /\ Fetched("Q2") /\ ~Fetched("Q1") /\ ~Fetched("Q3")
    /\ AllZero(q4) /\ AllZero(cum["Q4"])
    /\ Len(ret) = 3
    /\ RowsOf(ret, "Q4") = {2} /\ RowsOf(ret, "Annual") = {3}
    /\ DOMAIN ret[2] = IdentityFields /\ DOMAIN ret[3] = IdentityFields

====
